---- MODULE Spec2Model ----
(***************************************************************************)
(* Model of the investment calculator of src/src/App.jsx: the money form   *)
(* (react-hook-form values, the formatting effects, the zod schema), the   *)
(* wizard step, the two rate-table fetches and calculate().                *)
(*                                                                         *)
(* JavaScript numbers are modelled as exact rationals plus NaN: every      *)
(* arithmetic operator of the source is applied as written, without the    *)
(* rounding of IEEE doubles.  Texts are sequences of one-character         *)
(* strings.                                                                *)
(***************************************************************************)
EXTENDS Integers, Sequences, FiniteSets, TLC

(***************************************************************************)
(* Natural numbers of any size: little-endian sequences of limbs below     *)
(* Base, without high zero limbs (zero is the empty sequence).             *)
(***************************************************************************)
Base == 100 * 100

RECURSIVE NatOf(_)
NatOf(i) == IF i = 0 THEN <<>> ELSE <<i % Base>> \o NatOf(i \div Base)

\* the highest place of a where P holds (0 if there is none)
Highest(P) == IF P = {} THEN 0 ELSE CHOOSE i \in P : \A j \in P : j <= i

\* a without its high zero limbs
Strip(a) == SubSeq(a, 1, Highest({i \in 1..Len(a) : a[i] # 0}))

\* the limb of a at place i: zero beyond its length
At(a, i) == IF i <= Len(a) THEN a[i] ELSE 0

\* the limbs r[1] with the carry r[2] as one more limb, if there is one
WithCarry(r) == IF r[2] = 0 THEN r[1] ELSE r[1] \o <<r[2]>>

\* x moved up by k limbs
Shift(x, k) == IF x = <<>> THEN x ELSE [i \in 1..k |-> 0] \o x

\* The operations below work on the places lo..hi of their operands by
\* halves, the carry of one half handed to the other, and give
\* <<limbs, carry>>.

\* a + b + c on the places lo..hi
RECURSIVE AddR(_, _, _, _, _)
AddR(a, b, lo, hi, c) ==
  IF lo = hi
  THEN LET s == At(a, lo) + At(b, lo) + c
       IN <<<<s % Base>>, s \div Base>>
  ELSE LET mid == (lo + hi) \div 2
           low == AddR(a, b, lo, mid, c)
           high == AddR(a, b, mid + 1, hi, low[2])
       IN <<low[1] \o high[1], high[2]>>

NatAdd(a, b) ==
  IF a = <<>> THEN b
  ELSE IF b = <<>> THEN a
  ELSE WithCarry(AddR(a, b, 1, IF Len(a) >= Len(b) THEN Len(a) ELSE Len(b), 0))

\* a - b - c on the places lo..hi, the carry being the borrow
RECURSIVE SubR(_, _, _, _, _)
SubR(a, b, lo, hi, c) ==
  IF lo = hi
  THEN LET s == At(a, lo) - At(b, lo) - c
       IN <<<<(s + Base) % Base>>, IF s < 0 THEN 1 ELSE 0>>
  ELSE LET mid == (lo + hi) \div 2
           low == SubR(a, b, lo, mid, c)
           high == SubR(a, b, mid + 1, hi, low[2])
       IN <<low[1] \o high[1], high[2]>>

\* a - b, for a >= b
NatSub(a, b) == IF b = <<>> THEN a ELSE Strip(SubR(a, b, 1, Len(a), 0)[1])

\* a * k + c on the places lo..hi, for 0 < k < Base
RECURSIVE MulR(_, _, _, _, _)
MulR(a, k, lo, hi, c) ==
  IF lo = hi
  THEN LET s == a[lo] * k + c
       IN <<<<s % Base>>, s \div Base>>
  ELSE LET mid == (lo + hi) \div 2
           low == MulR(a, k, lo, mid, c)
           high == MulR(a, k, mid + 1, hi, low[2])
       IN <<low[1] \o high[1], high[2]>>

MulS(a, k) == IF a = <<>> \/ k = 0 THEN <<>> ELSE WithCarry(MulR(a, k, 1, Len(a), 0))

\* the limbs lo..hi of a, as a number, times b
RECURSIVE NatMulR(_, _, _, _)
NatMulR(a, b, lo, hi) ==
  IF lo = hi THEN MulS(b, a[lo])
  ELSE NatAdd(NatMulR(a, b, lo, (lo + hi) \div 2),
              Shift(NatMulR(a, b, (lo + hi) \div 2 + 1, hi), (lo + hi) \div 2 + 1 - lo))

NatMul(a, b) == IF a = <<>> \/ b = <<>> THEN <<>> ELSE NatMulR(a, b, 1, Len(a))

\* a against b at place i, the highest place where they differ (0: nowhere)
CmpFrom(a, b, i) == IF i = 0 THEN 0 ELSE IF a[i] < b[i] THEN -1 ELSE 1

\* -1, 0, 1 as a < b, a = b, a > b
NatCmp(a, b) ==
  IF Len(a) < Len(b) THEN -1
  ELSE IF Len(a) > Len(b) THEN 1
  ELSE CmpFrom(a, b, Highest({i \in 1..Len(a) : a[i] # b[i]}))

\* (r * Base^(hi - lo + 1) + a[lo..hi]) div k and mod k, for 0 <= r < k <= Base:
\* <<limbs of the quotient, remainder>>, the high half first (its remainder
\* is below k, and is settled before the low half is entered)
RECURSIVE DivR(_, _, _, _, _)
DivR(a, k, lo, hi, r) ==
  IF lo = hi
  THEN LET cur == r * Base + a[lo]
       IN <<<<cur \div k>>, cur % k>>
  ELSE LET mid == (lo + hi) \div 2
           high == DivR(a, k, mid + 1, hi, r)
           low == DivR(a, k, lo, mid, high[2])
       IN IF high[2] < k THEN <<low[1] \o high[1], low[2]>> ELSE high

NatModS(a, k) == IF a = <<>> THEN 0 ELSE DivR(a, k, 1, Len(a), 0)[2]

NatDivS(a, k) == IF a = <<>> THEN a ELSE Strip(DivR(a, k, 1, Len(a), 0)[1])

\* a mod k for a k that divides Base: the lowest limb decides
LowMod(a, k) == IF a = <<>> THEN 0 ELSE Head(a) % k

\* k divides a (k = 3 or k divides Base)
Divides(k, a) == IF k = 3 THEN NatModS(a, k) = 0 ELSE LowMod(a, k) = 0

\* the fraction q = <<n, d>> with the common factors k of n and d cancelled
RECURSIVE CancelBy(_, _)
CancelBy(q, k) ==
  IF Divides(k, q[1]) /\ Divides(k, q[2])
  THEN CancelBy(<<NatDivS(q[1], k), NatDivS(q[2], k)>>, k)
  ELSE q

\* n/d (d > 0) with the common factors 2, 3 and 5 cancelled
Cancel(n, d) ==
  IF n = <<>> THEN <<n, <<1>>>>
  ELSE IF d = <<1>> THEN <<n, d>>
  ELSE CancelBy(CancelBy(CancelBy(CancelBy(CancelBy(<<n, d>>, Base), 10), 2), 5), 3)

(***************************************************************************)
(* JavaScript numbers: a rational neg * n / d (d > 0), or NaN.  Infinity   *)
(* would arise only from x / 0 with x # 0, which no expression of          *)
(* calculate() can produce (its one division by a computed value has the   *)
(* numerator pow(1 + 0, n) - 1 = 0 whenever the divisor is 0).             *)
(***************************************************************************)
NaN == [nan |-> TRUE, neg |-> FALSE, n |-> <<>>, d |-> <<1>>]

One == [nan |-> FALSE, neg |-> FALSE, n |-> <<1>>, d |-> <<1>>]

\* the fraction q = <<n, d>> in lowest terms as a number
Lowest(neg, q) == [nan |-> FALSE, neg |-> (neg /\ q[1] # <<>>), n |-> q[1], d |-> q[2]]

Rat(neg, n, d) == Lowest(neg, Cancel(n, d))

FromInt(i) ==
  [nan |-> FALSE, neg |-> i < 0, n |-> NatOf(IF i < 0 THEN 0 - i ELSE i), d |-> <<1>>]

\* i / 10^k written out: the value of a decimal literal
Frac(i, den) == Rat(i < 0, NatOf(IF i < 0 THEN 0 - i ELSE i), NatOf(den))

IsZero(x) == ~x.nan /\ x.n = <<>>

FNeg(x) == IF x.nan THEN NaN ELSE [x EXCEPT !.neg = (~x.neg /\ x.n # <<>>)]

\* a/d + b/d for signed numerators
AddOver(aneg, a, bneg, b, d) ==
  Rat(IF aneg = bneg \/ NatCmp(a, b) >= 0 THEN aneg ELSE bneg,
      IF aneg = bneg THEN NatAdd(a, b)
      ELSE IF NatCmp(a, b) >= 0 THEN NatSub(a, b) ELSE NatSub(b, a),
      d)

FAdd(x, y) ==
  IF x.nan \/ y.nan THEN NaN
  ELSE AddOver(x.neg, IF x.d = y.d THEN x.n ELSE NatMul(x.n, y.d),
               y.neg, IF x.d = y.d THEN y.n ELSE NatMul(y.n, x.d),
               IF x.d = y.d THEN x.d ELSE NatMul(x.d, y.d))

FSub(x, y) == FAdd(x, FNeg(y))

FMul(x, y) ==
  IF x.nan \/ y.nan THEN NaN
  ELSE Rat(x.neg # y.neg, NatMul(x.n, y.n), NatMul(x.d, y.d))

\* x / y; 0 / 0 is NaN
FDiv(x, y) ==
  IF x.nan \/ y.nan \/ y.n = <<>> THEN NaN
  ELSE Rat(x.neg # y.neg, NatMul(x.n, y.d), NatMul(x.d, y.n))

\* a power that grows by x - 1 with every unit of k: 1 + k * (x - 1)
FPow_Linear(x, k) == FAdd(One, FMul(FromInt(k), FSub(x, One)))

\* acc * x^k
RECURSIVE PowFrom(_, _, _)
PowFrom(acc, x, k) == IF k = 0 \/ acc.nan THEN acc ELSE PowFrom(FMul(acc, x), x, k - 1)

\* Math.pow(x, k) for an integer k >= 0
FPow(x, k) == PowFrom(One, x, k)

\* x < y, x <= y, x === y: all false when an operand is NaN
FLt(x, y) == ~x.nan /\ ~y.nan /\ FSub(x, y).neg

FLe(x, y) == ~x.nan /\ ~y.nan /\ ~FSub(y, x).neg

FEq(x, y) == ~x.nan /\ ~y.nan /\ FSub(x, y).n = <<>>

\* the same value, NaN included (Object.is)
SameValue(x, y) == IF x.nan \/ y.nan THEN x.nan = y.nan ELSE FEq(x, y)

(***************************************************************************)
(* Texts: sequences of one-character strings.                              *)
(***************************************************************************)
DigitChar == <<"0", "1", "2", "3", "4", "5", "6", "7", "8", "9">>

IsDigit(c) == \E k \in 1..10 : DigitChar[k] = c

DigitVal(c) == (CHOOSE k \in 1..10 : DigitChar[k] = c) - 1

AllDigits(s) == \A i \in 1..Len(s) : IsDigit(s[i])

NotPeriod(c) == c # "."

DigitOrComma(c) == IsDigit(c) \/ c = ","

\* s[i..] without the commas that follow a comma
RECURSIVE OneComma(_, _)
OneComma(s, i) ==
  IF i > Len(s) THEN <<>>
  ELSE IF i > 1 /\ s[i] = "," /\ s[i - 1] = "," THEN OneComma(s, i + 1)
  ELSE <<s[i]>> \o OneComma(s, i + 1)

RECURSIVE DigitsToInt(_, _)
DigitsToInt(s, i) == IF i = 0 THEN 0 ELSE 10 * DigitsToInt(s, i - 1) + DigitVal(s[i])

RECURSIVE IntToDigits(_)
IntToDigits(n) ==
  IF n < 10 THEN <<DigitChar[n + 1]>>
  ELSE IntToDigits(n \div 10) \o <<DigitChar[(n % 10) + 1]>>

RECURSIVE Pow10(_)
Pow10(k) == IF k = 0 THEN 1 ELSE 10 * Pow10(k - 1)

\* val.replace(/\./g, '').replace(',', '.'): every period removed, then the
\* first comma turned into a period
Unlocalize(val) ==
  LET t == SelectSeq(val, NotPeriod)
      commas == {i \in 1..Len(t) : t[i] = ","}
      first == IF commas = {} THEN 0 ELSE CHOOSE i \in commas : \A j \in commas : i <= j
  IN [i \in 1..Len(t) |-> IF i = first THEN "." ELSE t[i]]

\* Number(text) for the texts Unlocalize can give: '' is 0, digits with at
\* most one period and at least one digit are that decimal, the rest is NaN
Number(t) ==
  LET dots == {i \in 1..Len(t) : t[i] = "."}
      digs == SelectSeq(t, IsDigit)
      dot == IF dots = {} THEN Len(t) + 1 ELSE CHOOSE i \in dots : TRUE
  IN IF t = <<>> THEN FromInt(0)
     ELSE IF Cardinality(dots) > 1 \/ digs = <<>> \/ Len(digs) + Cardinality(dots) # Len(t)
     THEN NaN
     ELSE Frac(DigitsToInt(digs, Len(digs)), Pow10(Len(t) + 1 - dot - Cardinality(dots)))

\* /^\d{1,3}(\.\d{3})*,\d{2}$/
MoneyRegex(s) ==
  LET p == Len(s) - 3      \* the length of the part before the comma
      k == p % 4           \* the length of its first group
  IN /\ p >= 1
     /\ k \in 1..3
     /\ s[p + 1] = ","
     /\ IsDigit(s[p + 2]) /\ IsDigit(s[p + 3])
     /\ \A i \in 1..p : IF i > k /\ (i - k) % 4 = 1 THEN s[i] = "." ELSE IsDigit(s[i])

\* /^\d*(,\d{0,2})?$/
TaxaRegex(s) ==
  LET commas == {i \in 1..Len(s) : s[i] = ","}
  IN /\ \A i \in 1..Len(s) : IsDigit(s[i]) \/ s[i] = ","
     /\ Cardinality(commas) <= 1
     /\ \A c \in commas : Len(s) - c <= 2

\* /^\d+$/
PeriodoRegex(s) == Len(s) >= 1 /\ AllDigits(s)

\* value.replace(/\D/g, ''), then (parseFloat(clean) / 100).toFixed(2) with
\* the period turned into a comma and the thousands grouped by periods
formatMoney(value) ==
  LET cleanValue == SelectSeq(value, IsDigit)
      cents == DigitsToInt(cleanValue, Len(cleanValue))
      whole == IntToDigits(cents \div 100)
      L == Len(whole)
      total == L + (L - 1) \div 3
      grouped == [j \in 1..total |->
                    LET q == total - j      \* places from the right end
                    IN IF q % 4 = 3 THEN "." ELSE whole[L - (q - q \div 4)]]
  IN IF cleanValue = <<>> THEN <<>>
     ELSE grouped \o <<",", DigitChar[((cents % 100) \div 10) + 1], DigitChar[(cents % 10) + 1]>>

\* everything but digits and commas removed, runs of commas made one comma,
\* a leading comma removed
formatTaxa(value) ==
  LET a == SelectSeq(value, DigitOrComma)
      b == OneComma(a, 1)
  IN IF b # <<>> /\ b[1] = "," THEN Tail(b) ELSE b

\* periodoValue.replace(/\D+/g, '')
formatPeriodo(value) == SelectSeq(value, IsDigit)

(***************************************************************************)
(* The forecast service and the two providers.  A response is a sequence   *)
(* of items [DataReferencia, Data, Media] (reference year, observation     *)
(* date as a day number, average rate); axios.get resolves with it or      *)
(* rejects.  A provider returns its table, or undefined after a rejection. *)
(***************************************************************************)
Resolved(value) == [rejected |-> FALSE, value |-> value]

Rejected == [rejected |-> TRUE, value |-> <<>>]

Item(ano, data, media100) == [DataReferencia |-> ano, Data |-> data, Media |-> Frac(media100, 100)]

\* x.toFixed(k) read back by parseFloat: x rounded to k decimals (the half
\* rounds away from zero); for a denominator of one limb
ToFixed(x, k) ==
  LET q == NatDivS(NatAdd(NatMul(x.n, NatOf(2 * Pow10(k))), x.d), 2 * x.d[1])
  IN IF x.nan THEN NaN ELSE Rat(x.neg, q, NatOf(Pow10(k)))

EmptyTable == << >>

Undefined == [undefined |-> TRUE, results |-> EmptyTable]

\* results[ano] = entry, the other years kept
Put(results, ano, entry) ==
  [a \in DOMAIN results \cup {ano} |-> IF a = ano THEN entry ELSE results[a]]

\* a loop that keeps the first record it meets for a year
RECURSIVE IPCAResults_First(_, _)
IPCAResults_First(value, i) ==
  IF i = 0 THEN EmptyTable
  ELSE IF value[i].DataReferencia \notin DOMAIN IPCAResults_First(value, i - 1)
  THEN Put(IPCAResults_First(value, i - 1), value[i].DataReferencia, value[i])
  ELSE IPCAResults_First(value, i - 1)

\* the for loop of fetchIPCARateReal over data.value[1..i]
RECURSIVE IPCAResults(_, _)
IPCAResults(value, i) ==
  IF i = 0 THEN EmptyTable
  ELSE LET results == IPCAResults(value, i - 1)
           item == value[i]
           ano == item.DataReferencia
       IN IF ano \notin DOMAIN results \/ item.Data > results[ano].Data
          THEN Put(results, ano, item)
          ELSE results

fetchIPCARateReal(response) ==
  IF response.rejected THEN Undefined
  ELSE [undefined |-> FALSE, results |-> IPCAResults(response.value, Len(response.value))]

\* the for loop of fetchCDIRateReal over data.value[1..i]
RECURSIVE CDIResults(_, _)
CDIResults(value, i) ==
  IF i = 0 THEN EmptyTable
  ELSE LET results == CDIResults(value, i - 1)
           item == value[i]
           ano == item.DataReferencia
       IN IF ano \notin DOMAIN results \/ item.Data > results[ano].Data
          THEN Put(results, ano,
                   [item EXCEPT !.Media = ToFixed(FMul(item.Media, Frac(98, 100)), 3)])
          ELSE results

fetchCDIRateReal(response) ==
  IF response.rejected THEN Undefined
  ELSE [undefined |-> FALSE, results |-> CDIResults(response.value, Len(response.value))]

(***************************************************************************)
(* The money form.  A field holds a text, or one of the two default        *)
(* values that are no strings (the number 0, null).                        *)
(***************************************************************************)
Str(t) == [isString |-> TRUE, text |-> t]

NumberZero == [isString |-> FALSE, text |-> <<"0">>]

Null == [isString |-> FALSE, text |-> <<>>]

defaultValues ==
  [ vencimento |-> "ano", isentoDeImposto |-> "sim", taxa |-> Null,
    tipoDeTaxa |-> "prefixado", periodo |-> Null, periodoTipo |-> "ano",
    aporteInicial |-> NumberZero, aporteMensal |-> NumberZero ]

\* x > 0
Positive(x) == ~x.nan /\ ~x.neg /\ x.n # <<>>

\* a schema that asks of taxa its format only, not taxa > 0
MoneyDataSchema_AnyTaxa(values) ==
     {f \in {"aporteInicial"} :
        ~(values.aporteInicial.isString /\ MoneyRegex(values.aporteInicial.text))}
  \cup
     {f \in {"aporteMensal"} :
        ~(/\ values.aporteMensal.isString
          /\ MoneyRegex(values.aporteMensal.text)
          /\ Positive(Number(Unlocalize(values.aporteMensal.text))))}
  \cup
     {f \in {"taxa"} : ~(values.taxa.isString /\ TaxaRegex(values.taxa.text))}
  \cup
     {f \in {"periodo"} :
        ~(/\ values.periodo.isString
          /\ PeriodoRegex(values.periodo.text)
          /\ Positive(Number(values.periodo.text)))}

\* the fields MoneyDataSchema rejects
MoneyDataSchema(values) ==
     {f \in {"aporteInicial"} :
        ~(values.aporteInicial.isString /\ MoneyRegex(values.aporteInicial.text))}
  \cup
     {f \in {"aporteMensal"} :
        ~(/\ values.aporteMensal.isString
          /\ MoneyRegex(values.aporteMensal.text)
          /\ Positive(Number(Unlocalize(values.aporteMensal.text))))}
  \cup
     {f \in {"taxa"} :
        ~(/\ values.taxa.isString
          /\ TaxaRegex(values.taxa.text)
          /\ Positive(Number(Unlocalize(values.taxa.text))))}
  \cup
     {f \in {"periodo"} :
        ~(/\ values.periodo.isString
          /\ PeriodoRegex(values.periodo.text)
          /\ Positive(Number(values.periodo.text)))}

(***************************************************************************)
(* calculate().  Its locals, read from the form before any await:          *)
(***************************************************************************)
\* a field that is no string has no replace method: the call throws
ReadThrows(values) ==
  ~(values.taxa.isString /\ values.aporteInicial.isString /\ values.aporteMensal.isString)

Meses(values) ==
  LET periodo == IF values.periodo.isString
                 THEN DigitsToInt(values.periodo.text, Len(values.periodo.text))
                 ELSE 0
  IN IF values.periodoTipo = "ano" THEN periodo * 12 ELSE periodo

TaxaValue(values) ==
  IF values.tipoDeTaxa = "cdi" THEN FromInt(0) ELSE Number(Unlocalize(values.taxa.text))

\* a conversion that takes every rate for a monthly one
CovertedTaxa_Monthly(values) == FDiv(TaxaValue(values), FromInt(100))

CovertedTaxa(values) ==
  IF values.vencimento = "meses"
  THEN FDiv(TaxaValue(values), FromInt(100))
  ELSE FDiv(FDiv(TaxaValue(values), FromInt(12)), FromInt(100))

Locals(values) ==
  [ tipoDeTaxa |-> values.tipoDeTaxa,
    isentoDeImposto |-> values.isentoDeImposto,
    meses |-> Meses(values),
    taxaValue |-> TaxaValue(values),
    aporteInicialValue |-> Number(Unlocalize(values.aporteInicial.text)),
    aporteMensalValue |-> Number(Unlocalize(values.aporteMensal.text)),
    covertedTaxa |-> CovertedTaxa(values) ]

\* what a branch of calculate() hands to setResult, unless it threw
Outcome(montanteBruto, montanteLiquido) ==
  [threw |-> FALSE, montanteBruto |-> montanteBruto, montanteLiquido |-> montanteLiquido]

Threw == [threw |-> TRUE, montanteBruto |-> NaN, montanteLiquido |-> NaN]

LoopThrew == [threw |-> TRUE, montante |-> NaN, totalInvestido |-> NaN]

\* a tax withheld on the whole amount, not on the gain
Liquido_OnMontante(c, montante, totalInvestido) ==
  IF c.isentoDeImposto = "sim" THEN montante
  ELSE FSub(montante, FMul(montante, Frac(15, 100)))

\* isentoDeImposto === 'sim' ? montante : montante - rendimento * 0.15
Liquido(c, montante, totalInvestido) ==
  LET rendimento == FSub(montante, totalInvestido)
  IN IF c.isentoDeImposto = "sim" THEN montante
     ELSE FSub(montante, FMul(rendimento, Frac(15, 100)))

\* the branch tipoDeTaxa === 'prefixado'
Prefixado(c) ==
  LET pow == FPow(FAdd(One, c.covertedTaxa), c.meses)
      montanteBruto ==
        FAdd(FMul(c.aporteInicialValue, pow),
             FMul(c.aporteMensalValue, FDiv(FSub(pow, One), c.covertedTaxa)))
      totalInvestido ==
        FAdd(c.aporteInicialValue, FMul(c.aporteMensalValue, FromInt(c.meses)))
  IN Outcome(montanteBruto, Liquido(c, montanteBruto, totalInvestido))

\* futureDate.getFullYear() after futureDate.setMonth(today.getMonth() + i):
\* months count from 0; a day of the month the target month lacks moves the
\* date into the next month, never out of December, so the year is that of
\* the month counted
FutureYear(today, i) == today.year + (today.month + i) \div 12

\* the first year of a table in place of its last
AnoFinal_Min(table) == CHOOSE a \in DOMAIN table : \A b \in DOMAIN table : a <= b

\* Math.max(...Object.keys(table).map(Number)), for a table with a year
AnoFinal(table) == CHOOSE a \in DOMAIN table : \A b \in DOMAIN table : b <= a

\* ipcaData[ano]?.Media ?? ipcaData[anoFinal].Media
IpcaAno(ipcaData, ano) ==
  IF ano \in DOMAIN ipcaData THEN ipcaData[ano].Media ELSE ipcaData[AnoFinal(ipcaData)].Media

\* montante and totalInvestido as the loops find them: the initial deposit
LoopStart(c) ==
  [threw |-> FALSE, montante |-> c.aporteInicialValue,
   totalInvestido |-> c.aporteInicialValue]

\* the i-th turn of the loop of the branch 'ipca+', from the state st
IpcaTurn(c, ipcaData, today, i, st) ==
  IF DOMAIN ipcaData = {} THEN LoopThrew             \* ipcaData[-Infinity].Media
  ELSE LET ipcaAno == IpcaAno(ipcaData, FutureYear(today, i))
           ipcaMes == FDiv(FDiv(ipcaAno, FromInt(12)), FromInt(100))
           taxaReal == c.covertedTaxa
           taxaEfetiva == FSub(FMul(FAdd(One, taxaReal), FAdd(One, ipcaMes)), One)
       IN [threw |-> FALSE,
           montante |-> FMul(FAdd(st.montante, c.aporteMensalValue),
                             FAdd(One, taxaEfetiva)),
           totalInvestido |-> FAdd(st.totalInvestido, c.aporteMensalValue)]

\* for (let i = 1; i <= meses; i++) of the branch 'ipca+', from its i-th
\* turn on; a throw ends it
RECURSIVE IpcaLoop(_, _, _, _, _)
IpcaLoop(c, ipcaData, today, i, st) ==
  IF i > c.meses \/ st.threw THEN st
  ELSE IpcaLoop(c, ipcaData, today, i + 1, IpcaTurn(c, ipcaData, today, i, st))

\* a branch that publishes the deposit whatever the provider returned
Ipca_Lenient(c, ipcaData, today) == Outcome(c.aporteInicialValue, c.aporteInicialValue)

\* the branch tipoDeTaxa === 'ipca+' after its await
Ipca(c, ipcaData, today) ==
  LET end == IF ipcaData.undefined THEN LoopThrew    \* Object.keys(undefined)
             ELSE IpcaLoop(c, ipcaData.results, today, 1, LoopStart(c))
  IN IF end.threw THEN Threw
     ELSE Outcome(end.montante, Liquido(c, end.montante, end.totalInvestido))

\* cdi[ano]?.Media ? cdi[ano]?.Medi * 1.2 : cdi[anoFinal].Media * 1.2
\* (no item has a field Medi: undefined * 1.2 is NaN; 0 and NaN are falsy)
CdiAno(cdi, ano) ==
  IF ano \in DOMAIN cdi /\ ~cdi[ano].Media.nan /\ ~IsZero(cdi[ano].Media)
  THEN NaN
  ELSE FMul(cdi[AnoFinal(cdi)].Media, Frac(12, 10))

\* the i-th turn of the loop of the last branch, from the state st
CdiTurn(c, cdi, today, i, st) ==
  IF DOMAIN cdi = {} THEN LoopThrew                  \* cdi[-Infinity].Media
  ELSE LET ipcaAno == CdiAno(cdi, FutureYear(today, i))
           ipcaMes == FDiv(FDiv(ipcaAno, FromInt(12)), FromInt(100))
           taxaReal == FDiv(FDiv(c.taxaValue, FromInt(100)), FromInt(12))
           taxaEfetiva == FSub(FMul(FAdd(One, taxaReal), FAdd(One, ipcaMes)), One)
       IN [threw |-> FALSE,
           montante |-> FMul(FAdd(st.montante, c.aporteMensalValue),
                             FAdd(One, taxaEfetiva)),
           totalInvestido |-> FAdd(st.totalInvestido, c.aporteMensalValue)]

\* for (let i = 1; i <= meses; i++) of the last branch, from its i-th turn
\* on; a throw ends it
RECURSIVE CdiLoop(_, _, _, _, _)
CdiLoop(c, cdi, today, i, st) ==
  IF i > c.meses \/ st.threw THEN st
  ELSE CdiLoop(c, cdi, today, i + 1, CdiTurn(c, cdi, today, i, st))

\* the last branch (tipoDeTaxa '+CDI') after its await
Cdi(c, cdi, today) ==
  LET end == IF cdi.undefined THEN LoopThrew         \* Object.keys(undefined)
             ELSE CdiLoop(c, cdi.results, today, 1, LoopStart(c))
  IN IF end.threw THEN Threw
     ELSE Outcome(end.montante, Liquido(c, end.montante, end.totalInvestido))

(***************************************************************************)
(* What the environment supplies: the texts typed into the fields, the     *)
(* service's responses, the date.                                          *)
(***************************************************************************)
TypedAporteInicial == { <<"0">>, <<"1", "0", "0", "0", "0", "0">> }

TypedAporteMensal == { <<"0">>, <<"1", "0", "0", "0", "0">> }

TypedTaxa == { <<"0">>, <<"1", "2">>, <<"1", ",", "5", ",">> }

TypedPeriodo == { <<"0">>, <<"1">> }

TiposDeTaxa == {"prefixado", "ipca+", "+CDI"}

\* the records the service holds: two observations for 2026, one for each
\* of 2027 and 2028 (rates in hundredths of a percent a year)
Forecasts == { Item(2026, 1, 1200), Item(2026, 2, -1200), Item(2027, 1, 451), Item(2028, 1, 0) }

Responses ==
  {Rejected, Resolved(<<>>)}
  \cup {Resolved(<<a>>) : a \in Forecasts}
  \cup {Resolved(<<p[1], p[2]>>) : p \in {q \in Forecasts \X Forecasts : q[1] # q[2]}}

\* new Date(): June 2026 (months count from 0)
Todays == { [year |-> 2026, month |-> 5] }

\* calculations that may await their fetch at once
MaxInFlight == 2

NoCall == [tipoDeTaxa |-> "", isentoDeImposto |-> "", meses |-> 0, taxaValue |-> NaN,
           aporteInicialValue |-> NaN, aporteMensalValue |-> NaN, covertedTaxa |-> NaN]

NoDay == [year |-> 0, month |-> 0]

NoSubmission == [kind |-> "none", call |-> NoCall, fetched |-> Undefined, today |-> NoDay]

NoResult == [set |-> FALSE, montanteBruto |-> NaN, montanteLiquido |-> NaN]

\* step, result: the useState cells; values: the money form's values;
\* awaiting: the locals of the calls of calculate() suspended in their fetch.
\* last records what became of the latest submission of the values as they
\* stand ("none": not submitted since the last edit; "blocked": rejected by
\* the schema, the fields in error being MoneyDataSchema(values);
\* "awaiting"; "published"; "threw"), with the locals of its call and the
\* table and date the call saw.
VARIABLES step, result, values, awaiting, last

vars == <<step, result, values, awaiting, last>>

Init ==
  /\ step = 0
  /\ result = NoResult
  /\ values = defaultValues
  /\ awaiting = <<>>
  /\ last = NoSubmission

\* buttonAction of INICIAR
Iniciar ==
  /\ step = 0
  /\ step' = 1
  /\ UNCHANGED <<result, values, awaiting, last>>

\* the info form submitted with valid entries
InfoSubmit ==
  /\ step = 1
  /\ step' = step + 1
  /\ UNCHANGED <<result, values, awaiting, last>>

\* the money form is on the page and no call is suspended
Editing == step = 2 /\ awaiting = <<>>

\* a text typed into a field, and the effect that formats it
TypeAporteInicial(typed) ==
  /\ Editing
  /\ values' = [values EXCEPT !.aporteInicial = Str(formatMoney(typed))]
  /\ last' = NoSubmission
  /\ UNCHANGED <<step, result, awaiting>>

TypeAporteMensal(typed) ==
  /\ Editing
  /\ values' = [values EXCEPT !.aporteMensal = Str(formatMoney(typed))]
  /\ last' = NoSubmission
  /\ UNCHANGED <<step, result, awaiting>>

TypeTaxa(typed) ==
  /\ Editing
  /\ values.tipoDeTaxa # "+CDI"
  /\ values' = [values EXCEPT !.taxa = Str(formatTaxa(typed))]
  /\ last' = NoSubmission
  /\ UNCHANGED <<step, result, awaiting>>

TypePeriodo(typed) ==
  /\ Editing
  /\ values' = [values EXCEPT !.periodo = Str(formatPeriodo(typed))]
  /\ last' = NoSubmission
  /\ UNCHANGED <<step, result, awaiting>>

SelectTipoDeTaxa(e) ==
  /\ Editing
  /\ values' = [values EXCEPT !.tipoDeTaxa = e]
  /\ last' = NoSubmission
  /\ UNCHANGED <<step, result, awaiting>>

SelectIsentoDeImposto(e) ==
  /\ Editing
  /\ values' = [values EXCEPT !.isentoDeImposto = e]
  /\ last' = NoSubmission
  /\ UNCHANGED <<step, result, awaiting>>

SelectVencimento(e) ==
  /\ Editing
  /\ values.tipoDeTaxa # "+CDI"
  /\ values' = [values EXCEPT !.vencimento = e]
  /\ last' = NoSubmission
  /\ UNCHANGED <<step, result, awaiting>>

SelectPeriodoTipo(e) ==
  /\ Editing
  /\ values' = [values EXCEPT !.periodoTipo = e]
  /\ last' = NoSubmission
  /\ UNCHANGED <<step, result, awaiting>>

\* setResult and setStep((e) => e + 1) at the end of a branch, or nothing
\* after a throw
Finish(call, fetched, today, out) ==
  IF out.threw
  THEN /\ last' = [kind |-> "threw", call |-> call, fetched |-> fetched, today |-> today]
       /\ UNCHANGED <<step, result>>
  ELSE /\ result' = [set |-> TRUE, montanteBruto |-> out.montanteBruto,
                     montanteLiquido |-> out.montanteLiquido]
       /\ step' = step + 1
       /\ last' = [kind |-> "published", call |-> call, fetched |-> fetched, today |-> today]

\* a submission whose call awaits a table in every regime
MoneySubmit_AlwaysFetch ==
  /\ step = 2
  /\ Len(awaiting) < MaxInFlight
  /\ UNCHANGED values
  /\ IF MoneyDataSchema(values) # {}
     THEN /\ last' = [NoSubmission EXCEPT !.kind = "blocked"]
          /\ UNCHANGED <<step, result, awaiting>>
     ELSE IF ReadThrows(values)
     THEN /\ last' = [NoSubmission EXCEPT !.kind = "threw"]
          /\ UNCHANGED <<step, result, awaiting>>
     ELSE /\ awaiting' = Append(awaiting, Locals(values))
          /\ last' = [NoSubmission EXCEPT !.kind = "awaiting", !.call = Locals(values)]
          /\ UNCHANGED <<step, result>>

\* handleMoneySubmit(() => calculate()): the schema, then calculate() up to
\* its end (prefixado) or up to its await
MoneySubmit ==
  /\ step = 2
  /\ Len(awaiting) < MaxInFlight
  /\ UNCHANGED values
  /\ IF MoneyDataSchema(values) # {}
     THEN /\ last' = [NoSubmission EXCEPT !.kind = "blocked"]
          /\ UNCHANGED <<step, result, awaiting>>
     ELSE IF ReadThrows(values)
     THEN /\ last' = [NoSubmission EXCEPT !.kind = "threw"]
          /\ UNCHANGED <<step, result, awaiting>>
     ELSE IF values.tipoDeTaxa = "prefixado"
     THEN /\ Finish(Locals(values), Undefined, NoDay, Prefixado(Locals(values)))
          /\ UNCHANGED awaiting
     ELSE /\ awaiting' = Append(awaiting, Locals(values))
          /\ last' = [NoSubmission EXCEPT !.kind = "awaiting", !.call = Locals(values)]
          /\ UNCHANGED <<step, result>>

\* the fetch of the i-th suspended call settles, and the call runs to its end
FetchReturn(i, response, today) ==
  /\ i \in 1..Len(awaiting)
  /\ LET call == awaiting[i]
         fetched == IF call.tipoDeTaxa = "ipca+" THEN fetchIPCARateReal(response)
                    ELSE fetchCDIRateReal(response)
     IN Finish(call, fetched, today,
               IF call.tipoDeTaxa = "ipca+" THEN Ipca(call, fetched, today)
               ELSE Cdi(call, fetched, today))
  /\ awaiting' = [j \in 1..Len(awaiting) - 1 |-> IF j < i THEN awaiting[j] ELSE awaiting[j + 1]]
  /\ UNCHANGED values

Next ==
  \/ Iniciar
  \/ InfoSubmit
  \/ \E typed \in TypedAporteInicial : TypeAporteInicial(typed)
  \/ \E typed \in TypedAporteMensal : TypeAporteMensal(typed)
  \/ \E typed \in TypedTaxa : TypeTaxa(typed)
  \/ \E typed \in TypedPeriodo : TypePeriodo(typed)
  \/ \E e \in TiposDeTaxa : SelectTipoDeTaxa(e)
  \/ \E e \in {"sim", "não"} : SelectIsentoDeImposto(e)
  \/ \E e \in {"meses", "ano"} : SelectVencimento(e)
  \/ \E e \in {"mes", "ano"} : SelectPeriodoTipo(e)
  \/ MoneySubmit
  \/ \E i \in 1..MaxInFlight, response \in Responses, today \in Todays :
       FetchReturn(i, response, today)

Spec == Init /\ [][Next]_vars

(***************************************************************************)
(* The quantities the properties speak of, read from the form as it        *)
(* stands.  A field is edited only while no call is suspended and every    *)
(* edit resets last, so whenever last.kind # "none" the form holds what    *)
(* was submitted.                                                          *)
(***************************************************************************)
Published == last.kind = "published"

InitialDeposit == Number(Unlocalize(values.aporteInicial.text))

MonthlyContribution == Number(Unlocalize(values.aporteMensal.text))

NominalRate == Number(Unlocalize(values.taxa.text))

TotalMonths ==
  IF values.periodoTipo = "ano"
  THEN 12 * DigitsToInt(values.periodo.text, Len(values.periodo.text))
  ELSE DigitsToInt(values.periodo.text, Len(values.periodo.text))

\* nominalRate/100/12 for an annual rate, nominalRate/100 for a monthly one
MonthlyRate ==
  IF values.vencimento = "ano" THEN FDiv(NominalRate, FromInt(1200))
  ELSE FDiv(NominalRate, FromInt(100))

TotalInvested == FAdd(InitialDeposit, FMul(MonthlyContribution, FromInt(TotalMonths)))

\* x^k by squaring
RECURSIVE Power(_, _)
Power(x, k) ==
  IF k = 0 THEN One
  ELSE IF k % 2 = 1 THEN FMul(x, Power(FMul(x, x), k \div 2))
  ELSE Power(FMul(x, x), k \div 2)

\* lo/100 <= x <= hi/100
Within(x, lo, hi) == FLe(Frac(lo, 100), x) /\ FLe(x, Frac(hi, 100))

\* 1000 at the start, 100 a month, 12% a year, 12 months
Example ==
  /\ values.aporteInicial = Str(<<"1", ".", "0", "0", "0", ",", "0", "0">>)
  /\ values.aporteMensal = Str(<<"1", "0", "0", ",", "0", "0">>)
  /\ values.taxa = Str(<<"1", "2">>)
  /\ values.vencimento = "ano"
  /\ TotalMonths = 12

\* C1: in the fixed regime the monthly rate r is positive and the published
\* gross amount g is dep*(1+r)^n + m*(((1+r)^n - 1)/r), stated without the
\* division as g*r = dep*(1+r)^n*r + m*((1+r)^n - 1); for 1000, 100 a month,
\* 12% a year and 12 months the gross is 2395.08 and the taxed net 2365.82,
\* each within 0.01.
C1_FixedGrossFormula ==
  (Published /\ values.tipoDeTaxa = "prefixado") =>
    /\ Positive(MonthlyRate)
    /\ FEq(FMul(result.montanteBruto, MonthlyRate),
           FAdd(FMul(FMul(InitialDeposit, Power(FAdd(One, MonthlyRate), TotalMonths)),
                     MonthlyRate),
                FMul(MonthlyContribution,
                     FSub(Power(FAdd(One, MonthlyRate), TotalMonths), One))))
    /\ (Example => Within(result.montanteBruto, 239507, 239509))
    /\ (Example /\ values.isentoDeImposto = "não"
          => Within(result.montanteLiquido, 236581, 236583))

\* the example of C1, published with the tax withheld
C1_ExamplePublished ==
  /\ Published
  /\ values.tipoDeTaxa = "prefixado"
  /\ Example
  /\ values.isentoDeImposto = "não"
  /\ ~FEq(result.montanteLiquido, result.montanteBruto)

\* C2: in every regime the published net amount is the gross amount when
\* the investment is exempt, and otherwise gross - 0.15 * gain with
\* gain = gross - (initial deposit + monthly contribution * months).
C2_NetFromGross ==
  Published =>
    SameValue(result.montanteLiquido,
              IF values.isentoDeImposto = "sim" THEN result.montanteBruto
              ELSE FSub(result.montanteBruto,
                        FMul(Frac(15, 100), FSub(result.montanteBruto, TotalInvested))))

\* an indexed calculation published with a tax withheld on a gain
C2_TaxedIndexedPublished ==
  /\ Published
  /\ values.tipoDeTaxa = "ipca+"
  /\ values.isentoDeImposto = "não"
  /\ FLt(TotalInvested, result.montanteBruto)
  /\ FLt(result.montanteLiquido, result.montanteBruto)

\* C3: every published result with numeric amounts has its net amount at
\* most its gross amount, in any regime and for any rate table.
C3_NetAtMostGross ==
  (Published /\ ~result.montanteBruto.nan /\ ~result.montanteLiquido.nan) =>
    FLe(result.montanteLiquido, result.montanteBruto)

\* the money form as the schema sees it, field by field
FormatsValid ==
  /\ values.aporteInicial.isString /\ MoneyRegex(values.aporteInicial.text)
  /\ values.aporteMensal.isString /\ MoneyRegex(values.aporteMensal.text)
  /\ Positive(MonthlyContribution)
  /\ values.periodo.isString /\ PeriodoRegex(values.periodo.text)
  /\ TotalMonths >= 1

\* a fixed-regime form with a rate of zero
ZeroRate ==
  /\ values.tipoDeTaxa = "prefixado"
  /\ values.taxa.isString /\ TaxaRegex(values.taxa.text)
  /\ IsZero(NominalRate)

FetchGaveNothing ==
  /\ Len(awaiting') < Len(awaiting)
  /\ (last'.fetched.undefined \/ DOMAIN last'.fetched.results = {})

\* C5: when the fetch of an indexed calculation fails or gives an empty
\* table, the calculation throws: the stored result and the step stay as
\* they were.
C5_FailedFetchAborts ==
  [][FetchGaveNothing => (last'.kind = "threw" /\ result' = result /\ step' = step)]_vars

\* an indexed calculation aborted on an empty table, nothing published
C5_EmptyTableAborted ==
  /\ last.kind = "threw"
  /\ last.call.tipoDeTaxa \in {"ipca+", "+CDI"}
  /\ ~last.fetched.undefined
  /\ DOMAIN last.fetched.results = {}
  /\ ~result.set
  /\ step = 2

\* C6: a benchmark calculation demands no rate: a submission with the
\* benchmark regime selected and the other fields valid is not blocked.
C6_NoRateForBenchmark ==
  (values.tipoDeTaxa = "+CDI" /\ FormatsValid /\ last.kind # "none") =>
    last.kind # "blocked"


\* the calendar year of the i-th month after the date the call saw
\* (months count from 0)
YearOfMonth(i) == (12 * last.today.year + last.today.month + i) \div 12

\* the table the call saw
Table == last.fetched.results

MaxYear == CHOOSE a \in DOMAIN Table : \A b \in DOMAIN Table : b <= a

\* the table's rate for the year of month i, or that of its maximum year
TableRate(i) ==
  IF YearOfMonth(i) \in DOMAIN Table THEN Table[YearOfMonth(i)].Media
  ELSE Table[MaxYear].Media

\* the balance after month n, from the balance bal before month i
RECURSIVE Balance(_, _, _)
Balance(bal, i, n) ==
  IF i > n \/ bal.nan THEN bal
  ELSE Balance(FMul(FMul(FAdd(bal, MonthlyContribution), FAdd(One, MonthlyRate)),
                    FAdd(One, FDiv(TableRate(i), FromInt(1200)))),
               i + 1, n)

\* C7: in the inflation-indexed regime a published calculation saw a table
\* with at least one year, and its gross amount is the balance reached from
\* the initial deposit by balance = (balance + monthly contribution) *
\* (1 + monthly rate) * (1 + tableRate_i/100/12) for i = 1..months, where
\* tableRate_i is the table's rate for the year of today + i months, or the
\* rate of the table's maximum year when that year is absent.
C7_IndexedBalance ==
  (Published /\ values.tipoDeTaxa = "ipca+") =>
    /\ ~last.fetched.undefined
    /\ DOMAIN Table # {}
    /\ FEq(result.montanteBruto, Balance(InitialDeposit, 1, TotalMonths))

\* twelve indexed months published, some in a year the table holds and some
\* in a year it lacks, the table holding two years
C7_BothLookupsPublished ==
  /\ Published
  /\ values.tipoDeTaxa = "ipca+"
  /\ TotalMonths = 12
  /\ Cardinality(DOMAIN Table) = 2
  /\ \E i \in 1..TotalMonths : YearOfMonth(i) \in DOMAIN Table
  /\ \E i \in 1..TotalMonths : YearOfMonth(i) \notin DOMAIN Table
  /\ Positive(TableRate(12))

\* C8: in the benchmark regime a calculation whose every month falls in a
\* year the table holds uses defined rates, so its published gross amount
\* is a number.
C8_PresentYearRateDefined ==
  (/\ Published
   /\ values.tipoDeTaxa = "+CDI"
   /\ \A i \in 1..TotalMonths : YearOfMonth(i) \in DOMAIN Table)
  => ~result.montanteBruto.nan

\* rates that could have been typed in place of the one in the form
OtherTaxa == { <<"6">>, <<"1", ",", "5">>, <<"1", "2">> }

\* the form with another rate entered, or another unit of the rate's period
OtherRates ==
  {[values EXCEPT !.taxa = Str(formatTaxa(typed)), !.vencimento = e] :
     typed \in OtherTaxa, e \in {"meses", "ano"}}

\* C9: in the benchmark regime the entered rate is ignored: the same
\* calculation with any other valid rate or rate period publishes the gross
\* amount that was published.
C9_RateIgnored ==
  (Published /\ values.tipoDeTaxa = "+CDI") =>
    \A other \in OtherRates :
      MoneyDataSchema(other) = {} =>
        SameValue(Cdi(Locals(other), last.fetched, last.today).montanteBruto,
                  result.montanteBruto)

\* amounts added to a deposit or a contribution, rates added to a monthly
\* rate, months added to a period
MoreMoney == {Frac(1, 100), FromInt(1000)}

MoreRate == {Frac(1, 1000), Frac(1, 10)}

MoreMonths == {1, 2}

\* the gross amount of the fixed regime for the locals c
Gross(c) == Prefixado(c).montanteBruto

GrowsWithDeposit ==
  \A more \in MoreMoney :
    FLt(result.montanteBruto,
        Gross([last.call EXCEPT !.aporteInicialValue = FAdd(@, more)]))

GrowsWithContribution ==
  \A more \in MoreMoney :
    FLt(result.montanteBruto,
        Gross([last.call EXCEPT !.aporteMensalValue = FAdd(@, more)]))

GrowsWithMonths ==
  \A more \in MoreMonths :
    FLt(result.montanteBruto, Gross([last.call EXCEPT !.meses = @ + more]))

GrowsWithRate ==
  \A more \in MoreRate :
    FLt(result.montanteBruto,
        Gross([last.call EXCEPT !.covertedTaxa = FAdd(@, more)]))

\* C10 as stated: the gross amount of the fixed regime strictly increases in
\* each of the initial deposit, the monthly contribution, the months and the
\* monthly rate, the other three held fixed.
C10_StrictlyIncreasing ==
  (Published /\ values.tipoDeTaxa = "prefixado") =>
    GrowsWithDeposit /\ GrowsWithContribution /\ GrowsWithMonths /\ GrowsWithRate

\* C10, amended: the gross amount of the fixed regime strictly increases in
\* the initial deposit, the monthly contribution and the months; it strictly
\* increases in the monthly rate when the initial deposit is positive or the
\* months are at least 2, and with no deposit and one month it is the
\* monthly contribution whatever the rate.
C10_IncreasingButOneMonth ==
  (Published /\ values.tipoDeTaxa = "prefixado") =>
    /\ GrowsWithDeposit /\ GrowsWithContribution /\ GrowsWithMonths
    /\ IF Positive(InitialDeposit) \/ TotalMonths >= 2 THEN GrowsWithRate
       ELSE \A more \in MoreRate :
              FEq(Gross([last.call EXCEPT !.covertedTaxa = FAdd(@, more)]),
                  MonthlyContribution)

\* a fixed calculation of twelve months on a positive deposit, published
C10_DepositOverYearPublished ==
  /\ Published
  /\ values.tipoDeTaxa = "prefixado"
  /\ Positive(InitialDeposit)
  /\ TotalMonths = 12
  /\ GrowsWithRate


\* the table the provider of the call's regime builds from a response
FetchedFor(call, response) ==
  IF call.tipoDeTaxa = "ipca+" THEN fetchIPCARateReal(response)
  ELSE fetchCDIRateReal(response)

\* awaiting without its i-th call
Without(i) == [j \in 1..Len(awaiting) - 1 |-> IF j < i THEN awaiting[j] ELSE awaiting[j + 1]]

\* a step in which a call starts its fetch; one in which a fetch settles
Suspends == Len(awaiting') > Len(awaiting)

Settles == Len(awaiting') < Len(awaiting)

\* a step that sets the result or advances the step past the money form
Publishes == result' # result \/ (step >= 2 /\ step' # step)

\* the one step of a fetch's start: an indexed call, appended once, nothing
\* simulated or published yet
OneFetchStarted ==
  /\ values.tipoDeTaxa \in {"ipca+", "+CDI"}
  /\ awaiting' = Append(awaiting, Locals(values))
  /\ last'.kind = "awaiting"
  /\ ~Publishes

\* the one step of a fetch's end: one suspended call leaves, having seen the
\* table built from the response that settled its own fetch, and runs to its
\* end in that step
OneFetchSettled ==
  \E i \in 1..Len(awaiting), response \in Responses :
    /\ awaiting' = Without(i)
    /\ last'.call = awaiting[i]
    /\ last'.fetched = FetchedFor(awaiting[i], response)
    /\ last'.kind \in {"published", "threw"}
    /\ (last'.kind = "published" <=> Publishes)

\* C11: a calculation fetches its table at most once, only in the indexed
\* regimes, and before it simulates: a call enters the suspended calls only
\* in a submission of an indexed regime and publishes nothing then; it
\* leaves them in the one step that settles its fetch, sees the table built
\* from the response of that fetch and only then runs its loop; a fixed
\* calculation publishes without a fetch.
C11_OneFreshFetch ==
  [][/\ Suspends => OneFetchStarted
     /\ Settles => OneFetchSettled
     /\ (Publishes /\ ~Settles) =>
          (values.tipoDeTaxa = "prefixado" /\ awaiting' = awaiting /\ last'.fetched.undefined)
     /\ (Publishes /\ last'.call.tipoDeTaxa \in {"ipca+", "+CDI"}) => Settles]_vars

\* an indexed calculation published on the table its fetch returned, no call
\* left suspended
C11_FetchedThenPublished ==
  /\ Published
  /\ last.call.tipoDeTaxa \in {"ipca+", "+CDI"}
  /\ ~last.fetched.undefined
  /\ Cardinality(DOMAIN last.fetched.results) = 2
  /\ awaiting = <<>>
  /\ result.set


\* C12: calculations that overlap share no state: a call that publishes does
\* what it would do alone, setting a result where none was set and taking
\* the step from the money form (2) to the result (3); no other call in
\* flight has set the result or advanced the step before it.
C12_PublishesAsIfAlone ==
  [][(Settles /\ Publishes) => (~result.set /\ step = 2 /\ step' = 3)]_vars


\* lists of the service's records, in every order: those of Responses and
\* those of three different records
Lists ==
  {r.value : r \in {q \in Responses : ~q.rejected}}
  \cup {<<t[1], t[2], t[3]>> :
          t \in {u \in Forecasts \X Forecasts \X Forecasts :
                   u[1] # u[2] /\ u[1] # u[3] /\ u[2] # u[3]}}

\* the records of a list for the reference year ano that no record of the
\* list for that year is dated after
Newest(value, ano) ==
  {value[i] : i \in {j \in 1..Len(value) :
                       /\ value[j].DataReferencia = ano
                       /\ \A k \in 1..Len(value) :
                            value[k].DataReferencia = ano => value[k].Data <= value[j].Data}}

\* a record with its rate scaled for the benchmark table
Scaled(item) == [item EXCEPT !.Media = ToFixed(FMul(Frac(98, 100), @), 3)]

\* the tables built from the list have one entry for each of its years and
\* no other, the entry being a newest record of the year
NewestPerYear(value) ==
  /\ DOMAIN fetchIPCARateReal(Resolved(value)).results
       = {value[i].DataReferencia : i \in 1..Len(value)}
  /\ DOMAIN fetchCDIRateReal(Resolved(value)).results
       = {value[i].DataReferencia : i \in 1..Len(value)}
  /\ \A i \in 1..Len(value) :
       /\ fetchIPCARateReal(Resolved(value)).results[value[i].DataReferencia]
            \in Newest(value, value[i].DataReferencia)
       /\ fetchCDIRateReal(Resolved(value)).results[value[i].DataReferencia]
            \in {Scaled(item) : item \in Newest(value, value[i].DataReferencia)}

\* C13: for every list of forecast records, in any order, the table a
\* provider builds has exactly one entry for each reference year of the list,
\* the record of that year with the most recent observation date (its rate
\* scaled once by 0.98 in the benchmark table); the table a call saw is such
\* a table.
C13_NewestRecordPerYear ==
  ~last.fetched.undefined =>
    /\ \E value \in Lists : last.fetched = FetchedFor(last.call, Resolved(value))
    /\ \A value \in Lists : NewestPerYear(value)

\* a call saw a table of two years whose entry for 2026 is the later of the
\* service's two observations for that year
C13_LaterObservationSeen ==
  /\ ~last.fetched.undefined
  /\ DOMAIN last.fetched.results = {2026, 2027}
  /\ last.fetched.results[2026].Data = 2
  /\ last.fetched.results[2026].Media.neg
====
